---- MODULE Spec2Model ----
(***************************************************************************)
(* A model of the dmenu facade (src/src/lib.rs): the DMenu configuration   *)
(* builder, the rendering of a configuration to the dmenu command line,    *)
(* and the three execution entry points execute, execute_consume and       *)
(* execute_as_input.                                                       *)
(*                                                                         *)
(* A Rust String is a sequence of Unicode scalar values (naturals); the    *)
(* child's stdout is a sequence of bytes.  The configuration's &str values *)
(* and the rendered command are TLA+ strings.  Option<T> is a sequence of  *)
(* length at most one: None is << >> and Some(x) is << x >>.               *)
(***************************************************************************)
EXTENDS Integers, Sequences, FiniteSets, TLC

VARIABLES
    cfg,      \* the DMenu value being built, then consumed by a call
    pc,       \* "build" | "rendered" | "wait" | "returned"
    mode,     \* which entry point consumed cfg: "none" | "execute" | ...
    list,     \* the caller's item list: the Display text of each item
    map,      \* HashMap<String, item>: key -> index of the item in list
    shell,    \* the two holes of "echo -e '{}' | {}": [input, dmenu]
    command,  \* the String returned by to_command
    child,    \* the sh child process: "none" | "running" | "exited"
    spawns,   \* number of child processes spawned so far
    stdout,   \* the bytes the child wrote to its stdout
    result    \* the value returned by the entry point

vars == << cfg, pc, mode, list, map, shell, command, child, spawns, stdout, result >>

----------------------------------------------------------------------------
(* Bounds of the model *)

MaxItems == 3   \* longest item list passed to execute / execute_consume
MaxOut == 3     \* longest stdout (in bytes) the child writes

(* Inputs *)

\* bytes the child may write: '\n', 'a', and the two bytes of U+00E9, each
\* of which alone is not valid UTF-8
Bytes == {10, 97, 195, 169}
\* Display texts of items: "", "a", "e-acute"
ItemTexts == { << >>, <<97>>, <<233>> }
Amounts == {0, 3}
Monitors == {1}
Prompts == {"Select:"}
Fonts == {"X"}
ColorNames == {"#ffffff", "#000000", "#ff0000", "#0000ff"}

RECURSIVE SeqsUpTo(_, _)
SeqsUpTo(S, n) ==
    IF n = 0 THEN { << >> }
    ELSE LET shorter == SeqsUpTo(S, n - 1)
         IN  shorter \cup { Append(s, x) : s \in shorter, x \in S }

Lists == SeqsUpTo(ItemTexts, MaxItems)
Outputs == SeqsUpTo(Bytes, MaxOut)

----------------------------------------------------------------------------
(* Option and Color *)

None == << >>
Some(x) == << x >>
IsSome(o) == Len(o) = 1
Unwrap(o) == o[1]

Color(s) == [c0 |-> s]
\* the values passed to with_colors for each of its four parameters
NbArgs == { None, Some(Color("#ffffff")), Some(Color("#000000")) }
NfArgs == { None, Some(Color("#000000")) }
SbArgs == { None, Some(Color("#ff0000")) }
SfArgs == { None, Some(Color("#0000ff")) }

----------------------------------------------------------------------------
(* The configuration builder *)

Default ==
    [ on_top |-> TRUE,
      case_insensitive |-> FALSE,
      vertical_lines |-> None,
      monitor |-> None,
      prompt |-> None,
      font |-> None,
      normal_background_color |-> None,
      normal_foreground_color |-> None,
      selected_background_color |-> None,
      selected_foreground_color |-> None ]

display_bottom(self) == [self EXCEPT !.on_top = FALSE]

case_insensitive(self) == [self EXCEPT !.case_insensitive = TRUE]

vertical_with_lines(self, amount) == [self EXCEPT !.vertical_lines = Some(amount)]

display_on_monitor(self, monitor_id) == [self EXCEPT !.monitor = Some(monitor_id)]

with_prompt(self, prompt) == [self EXCEPT !.prompt = Some(prompt)]

\* a setter that also writes the prompt field
with_font_and_prompt(self, font) == [self EXCEPT !.font = Some(font), !.prompt = Some(font)]

with_font(self, font) == [self EXCEPT !.font = Some(font)]

\* a with_colors that leaves a slot alone when it is passed None
with_colors_keep(self, nb, nf, sb, sf) ==
    [self EXCEPT !.normal_background_color = IF nb = None THEN @ ELSE nb,
                 !.normal_foreground_color = IF nf = None THEN @ ELSE nf,
                 !.selected_background_color = IF sb = None THEN @ ELSE sb,
                 !.selected_foreground_color = IF sf = None THEN @ ELSE sf]

with_colors(self, nb, nf, sb, sf) ==
    [self EXCEPT !.normal_background_color = nb,
                 !.normal_foreground_color = nf,
                 !.selected_background_color = sb,
                 !.selected_foreground_color = sf]

----------------------------------------------------------------------------
(* Rendering.  to_command builds its String by push_str; pushes is the   *)
(* sequence of the pushed pieces (the initial "dmenu" first), one IF per  *)
(* `if` of the code, and to_command is the String they add up to.         *)

\* a renderer that pushes the font flag before the prompt flag
pushes_font_first(self) ==
    LET p0 == << "dmenu" >>
        p1 == IF ~self.on_top THEN Append(p0, " -b") ELSE p0
        p2 == IF self.case_insensitive THEN Append(p1, " -i") ELSE p1
        p3 == IF IsSome(self.vertical_lines)
              THEN Append(p2, " -l " \o ToString(Unwrap(self.vertical_lines))) ELSE p2
        p4 == IF IsSome(self.monitor)
              THEN Append(p3, " -m " \o ToString(Unwrap(self.monitor))) ELSE p3
        p5 == IF IsSome(self.font)
              THEN Append(p4, " -fn '" \o Unwrap(self.font) \o "'") ELSE p4
        p6 == IF IsSome(self.prompt)
              THEN Append(p5, " -p '" \o Unwrap(self.prompt) \o "'") ELSE p5
        p7 == IF IsSome(self.normal_background_color)
              THEN Append(p6, " -nb '" \o Unwrap(self.normal_background_color).c0 \o "'")
              ELSE p6
        p8 == IF IsSome(self.normal_foreground_color)
              THEN Append(p7, " -nf '" \o Unwrap(self.normal_foreground_color).c0 \o "'")
              ELSE p7
        p9 == IF IsSome(self.selected_background_color)
              THEN Append(p8, " -sb '" \o Unwrap(self.selected_background_color).c0 \o "'")
              ELSE p8
        p10 == IF IsSome(self.selected_foreground_color)
               THEN Append(p9, " -sf '" \o Unwrap(self.selected_foreground_color).c0 \o "'")
               ELSE p9
    IN  p10

pushes(self) ==
    LET p0 == << "dmenu" >>
        p1 == IF ~self.on_top THEN Append(p0, " -b") ELSE p0
        p2 == IF self.case_insensitive THEN Append(p1, " -i") ELSE p1
        p3 == IF IsSome(self.vertical_lines)
              THEN Append(p2, " -l " \o ToString(Unwrap(self.vertical_lines))) ELSE p2
        p4 == IF IsSome(self.monitor)
              THEN Append(p3, " -m " \o ToString(Unwrap(self.monitor))) ELSE p3
        p5 == IF IsSome(self.prompt)
              THEN Append(p4, " -p '" \o Unwrap(self.prompt) \o "'") ELSE p4
        p6 == IF IsSome(self.font)
              THEN Append(p5, " -fn '" \o Unwrap(self.font) \o "'") ELSE p5
        p7 == IF IsSome(self.normal_background_color)
              THEN Append(p6, " -nb '" \o Unwrap(self.normal_background_color).c0 \o "'")
              ELSE p6
        p8 == IF IsSome(self.normal_foreground_color)
              THEN Append(p7, " -nf '" \o Unwrap(self.normal_foreground_color).c0 \o "'")
              ELSE p7
        p9 == IF IsSome(self.selected_background_color)
              THEN Append(p8, " -sb '" \o Unwrap(self.selected_background_color).c0 \o "'")
              ELSE p8
        p10 == IF IsSome(self.selected_foreground_color)
               THEN Append(p9, " -sf '" \o Unwrap(self.selected_foreground_color).c0 \o "'")
               ELSE p9
    IN  p10

RECURSIVE Concat(_)
Concat(pieces) ==
    IF pieces = << >> THEN "" ELSE Head(pieces) \o Concat(Tail(pieces))

to_command(self) == Concat(pushes(self))

----------------------------------------------------------------------------
(* Initial states *)

NoResult == [kind |-> "none", item |-> 0, text |-> << >>, err |-> "none"]
Ok_item(i) == [kind |-> "Ok", item |-> i, text |-> << >>, err |-> "none"]
Ok_text(s) == [kind |-> "Ok", item |-> 0, text |-> s, err |-> "none"]
Err(e) == [kind |-> "Err", item |-> 0, text |-> << >>, err |-> e]

\* HashMap::new()
HashMap_new == [k \in {} |-> 0]
NoShell == [input |-> << >>, dmenu |-> ""]

Idle ==
    /\ pc = "build"
    /\ mode = "none"
    /\ list = << >>
    /\ map = HashMap_new
    /\ shell = NoShell
    /\ command = ""
    /\ child = "none"
    /\ spawns = 0
    /\ stdout = << >>
    /\ result = NoResult

\* DMenu::default()
InitBuilder == cfg = Default /\ Idle

----------------------------------------------------------------------------
(* Builder actions: a setter consumes cfg and yields the next cfg *)

Exec_unchanged == UNCHANGED << pc, mode, list, map, shell, command, child, spawns, stdout, result >>

Set_display_bottom == pc = "build" /\ cfg' = display_bottom(cfg) /\ Exec_unchanged

Set_case_insensitive == pc = "build" /\ cfg' = case_insensitive(cfg) /\ Exec_unchanged

Set_vertical_with_lines ==
    /\ pc = "build"
    /\ \E amount \in Amounts : cfg' = vertical_with_lines(cfg, amount)
    /\ Exec_unchanged

Set_display_on_monitor ==
    /\ pc = "build"
    /\ \E monitor_id \in Monitors : cfg' = display_on_monitor(cfg, monitor_id)
    /\ Exec_unchanged

Set_with_prompt ==
    /\ pc = "build"
    /\ \E prompt \in Prompts : cfg' = with_prompt(cfg, prompt)
    /\ Exec_unchanged

Set_with_font ==
    /\ pc = "build"
    /\ \E font \in Fonts : cfg' = with_font(cfg, font)
    /\ Exec_unchanged

Set_with_colors ==
    /\ pc = "build"
    /\ \E nb \in NbArgs, nf \in NfArgs, sb \in SbArgs, sf \in SfArgs :
           cfg' = with_colors(cfg, nb, nf, sb, sf)
    /\ Exec_unchanged

\* to_command applied to the configuration built so far
RenderCommand ==
    /\ pc = "build"
    /\ command' = to_command(cfg)
    /\ pc' = "rendered"
    /\ UNCHANGED << cfg, mode, list, map, shell, child, spawns, stdout, result >>

NextBuilder ==
    \/ Set_display_bottom
    \/ Set_case_insensitive
    \/ Set_vertical_with_lines
    \/ Set_display_on_monitor
    \/ Set_with_prompt
    \/ Set_with_font
    \/ Set_with_colors
    \/ RenderCommand

SpecBuilder == InitBuilder /\ [][NextBuilder]_vars

----------------------------------------------------------------------------
(* Strings, bytes and the HashMap *)

\* a decoder that checks nothing: every byte taken as a char
from_utf8_unchecked(bytes) == [ok |-> TRUE, s |-> bytes]

\* String::from_utf8 on the byte forms that Bytes can produce: one-byte
\* (0xxxxxxx) and two-byte (110xxxxx 10xxxxxx, lead byte 0xC2..0xDF) forms.
\* Any other byte, a lead byte without continuation, or a continuation
\* without lead is an error.
RECURSIVE from_utf8(_)
from_utf8(bytes) ==
    IF bytes = << >> THEN [ok |-> TRUE, s |-> << >>]
    ELSE LET b == Head(bytes) IN
         IF b < 128
         THEN LET rest == from_utf8(Tail(bytes))
              IN  [ok |-> rest.ok, s |-> IF rest.ok THEN <<b>> \o rest.s ELSE << >>]
         ELSE IF b >= 194 /\ b <= 223 /\ Len(bytes) >= 2
                 /\ bytes[2] >= 128 /\ bytes[2] <= 191
         THEN LET rest == from_utf8(Tail(Tail(bytes)))
              IN  [ok |-> rest.ok,
                   s |-> IF rest.ok
                         THEN << (b - 192) * 64 + (bytes[2] - 128) >> \o rest.s
                         ELSE << >>]
         ELSE [ok |-> FALSE, s |-> << >>]

\* String::pop: removes the last char, if there is one
pop(string) ==
    IF string = << >> THEN string ELSE SubSeq(string, 1, Len(string) - 1)

\* a key without the trailing newline
format_key_bare(item) == item

\* format!("{}\n", item)
format_key(item) == item \o <<10>>

\* an insert that keeps the value already stored under the key
HashMap_insert_keep_first(m, key, value) ==
    [k \in DOMAIN m \cup {key} |-> IF k \in DOMAIN m THEN m[k] ELSE value]

\* HashMap::insert: a later value replaces an earlier one under the same key
HashMap_insert(m, key, value) ==
    [k \in DOMAIN m \cup {key} |-> IF k = key THEN value ELSE m[k]]

\* a lookup that also accepts a key whose trailing newline is missing
HashMap_get_lenient(m, key) ==
    IF key \in DOMAIN m THEN Some(m[key])
    ELSE IF (key \o <<10>>) \in DOMAIN m THEN Some(m[key \o <<10>>])
    ELSE None

\* HashMap::get, as an Option
HashMap_get(m, key) == IF key \in DOMAIN m THEN Some(m[key]) ELSE None

\* HashMap::remove: the map without the key
HashMap_remove(m, key) == [k \in DOMAIN m \ {key} |-> m[k]]

\* the `for item in list` loop of execute / execute_consume from item i on:
\* the map and list_string after it
RECURSIVE build(_, _, _)
build(l, i, acc) ==
    IF i > Len(l) THEN acc
    ELSE LET key == format_key(l[i])
         IN  build(l, i + 1,
                   [map |-> HashMap_insert(acc.map, key, i),
                    list_string |-> acc.list_string \o key])

build_all(l) == build(l, 1, [map |-> HashMap_new, list_string |-> << >>])

\* a lookup that reports empty output as a cancellation of its own kind
execute_result_cancel(m, out) ==
    LET chosen == from_utf8(out) IN
    IF ~chosen.ok THEN Err("FromUtf8Error")
    ELSE IF chosen.s = << >> THEN Err("Cancelled")
    ELSE IF chosen.s \in DOMAIN m THEN Ok_item(m[chosen.s])
    ELSE Err("ItemNotFoundError")

\* from `String::from_utf8(shell_output.stdout)?` to the end of execute
execute_result(m, out) ==
    LET chosen == from_utf8(out) IN
    IF ~chosen.ok THEN Err("FromUtf8Error")
    ELSE LET found == HashMap_get(m, chosen.s) IN
         IF IsSome(found) THEN Ok_item(Unwrap(found)) ELSE Err("ItemNotFoundError")

\* from `String::from_utf8(shell_output.stdout)?` to the end of execute_as_input
execute_as_input_result(out) ==
    LET string == from_utf8(out) IN
    IF ~string.ok THEN Err("FromUtf8Error") ELSE Ok_text(pop(string.s))

\* a call that does not wait for the child
output_not_awaited == TRUE

\* Command::output() returns only once the child has exited
output_done == child = "exited"

----------------------------------------------------------------------------
(* The execution entry points *)

\* configurations handed to the entry points
ExecConfigs == { Default, with_prompt(display_bottom(Default), "Select:") }

Init == cfg \in ExecConfigs /\ Idle

\* Command::new("sh")...output(): the launch fails and `?` returns the
\* io::Error, or the child runs and the call blocks
Launch ==
    /\ spawns' = spawns + 1
    /\ \/ /\ child' = "none"
          /\ result' = Err("io::Error")
          /\ pc' = "returned"
       \/ /\ child' = "running"
          /\ result' = result
          /\ pc' = "wait"

execute_call ==
    /\ pc = "build"
    /\ \E l \in Lists :
        LET built == build_all(l) IN
        /\ list' = l
        /\ map' = built.map
        /\ shell' = [input |-> built.list_string, dmenu |-> to_command(cfg)]
    /\ mode' = "execute"
    /\ Launch
    /\ UNCHANGED << cfg, command, stdout >>

execute_consume_call ==
    /\ pc = "build"
    /\ \E l \in Lists :
        LET built == build_all(l) IN
        /\ list' = l
        /\ map' = built.map
        /\ shell' = [input |-> built.list_string, dmenu |-> to_command(cfg)]
    /\ mode' = "execute_consume"
    /\ Launch
    /\ UNCHANGED << cfg, command, stdout >>

execute_as_input_call ==
    /\ pc = "build"
    /\ shell' = [input |-> <<10>>, dmenu |-> to_command(cfg)]
    /\ mode' = "execute_as_input"
    /\ Launch
    /\ UNCHANGED << cfg, list, map, command, stdout >>

\* the child (sh, echo and dmenu) writes its output and exits
child_exit ==
    /\ child = "running"
    /\ \E out \in Outputs : stdout' = out
    /\ child' = "exited"
    /\ UNCHANGED << cfg, pc, mode, list, map, shell, command, spawns, result >>

execute_return ==
    /\ pc = "wait" /\ mode = "execute"
    /\ output_done
    /\ result' = execute_result(map, stdout)
    /\ pc' = "returned"
    /\ UNCHANGED << cfg, mode, list, map, shell, command, child, spawns, stdout >>

execute_consume_return ==
    /\ pc = "wait" /\ mode = "execute_consume"
    /\ output_done
    /\ result' = execute_result(map, stdout)
    /\ map' = IF from_utf8(stdout).ok THEN HashMap_remove(map, from_utf8(stdout).s) ELSE map
    /\ pc' = "returned"
    /\ UNCHANGED << cfg, mode, list, shell, command, child, spawns, stdout >>

execute_as_input_return ==
    /\ pc = "wait" /\ mode = "execute_as_input"
    /\ output_done
    /\ result' = execute_as_input_result(stdout)
    /\ pc' = "returned"
    /\ UNCHANGED << cfg, mode, list, map, shell, command, child, spawns, stdout >>

Next ==
    \/ execute_call
    \/ execute_consume_call
    \/ execute_as_input_call
    \/ child_exit
    \/ execute_return
    \/ execute_consume_return
    \/ execute_as_input_return

Spec == Init /\ [][Next]_vars

----------------------------------------------------------------------------
(* Vocabulary of the properties *)

\* the chars whose encodings Bytes can spell
Chars == {10, 97, 233}

\* the UTF-8 bytes of a String (one- and two-byte forms)
RECURSIVE as_bytes(_)
as_bytes(s) ==
    IF s = << >> THEN << >>
    ELSE LET c == Head(s) IN
         (IF c < 128 THEN << c >> ELSE << 192 + (c \div 64), 128 + (c % 64) >>)
             \o as_bytes(Tail(s))

Strings == SeqsUpTo(Chars, MaxOut)

\* stdout is the UTF-8 encoding of some String
Encodings == { as_bytes(s) : s \in Strings }
Decodable(bytes) == bytes \in Encodings
TextOf(bytes) == CHOOSE s \in Strings : as_bytes(s) = bytes

\* what the program prints back when item k of l is selected
Echo(l, k) == as_bytes(l[k] \o <<10>>)

PairwiseDistinct(l) == \A i, j \in 1..Len(l) : l[i] = l[j] => i = j

\* the last position of l holding the same display text as position k
LastSame(l, k) ==
    CHOOSE j \in 1..Len(l) : l[j] = l[k] /\ \A i \in (j + 1)..Len(l) : l[i] # l[k]

ListModes == {"execute", "execute_consume"}

\* the call has returned after the shell launched and the child exited
ReturnedFrom(modes) == pc = "returned" /\ mode \in modes /\ child = "exited"

----------------------------------------------------------------------------
(* Properties of the execution entry points, checked under Spec *)

\* C1: round trip.  When execute is given a non-empty list of pairwise
\* distinct display texts and the child's stdout is the text of item k plus
\* one newline, execute returns Ok with item k.
C1_RoundTrip ==
    (ReturnedFrom({"execute"}) /\ list # << >> /\ PairwiseDistinct(list)) =>
        \A k \in 1..Len(list) : stdout = Echo(list, k) => result = Ok_item(k)

C1_Witness ==
    /\ ReturnedFrom({"execute"})
    /\ Len(list) >= 3 /\ PairwiseDistinct(list)
    /\ list[2] = <<233>>
    /\ stdout = Echo(list, 2)
    /\ result = Ok_item(2)

\* C2: collision.  When several items share the echoed display text, execute
\* and execute_consume return the last of them in list order, never an
\* earlier one.
C2_LastWins ==
    ReturnedFrom(ListModes) =>
        \A k \in 1..Len(list) :
            (stdout = Echo(list, k) /\ \E j \in 1..Len(list) : j # k /\ list[j] = list[k]) =>
                /\ result = Ok_item(LastSame(list, k))
                /\ \A j \in 1..Len(list) :
                       (list[j] = list[k] /\ j < LastSame(list, k)) => result # Ok_item(j)

C2_Witness ==
    /\ ReturnedFrom({"execute_consume"})
    /\ Len(list) >= 3
    /\ list[1] = <<97>> /\ list[2] = <<233>> /\ list[3] = <<97>>
    /\ \A j \in 4..Len(list) : list[j] # <<97>>
    /\ stdout = <<97, 10>>
    /\ result = Ok_item(3)

\* C3: miss.  A decodable stdout that is not the display text plus newline
\* of any item makes execute and execute_consume fail with
\* ItemNotFoundError; empty stdout does so for every list.
C3_Miss ==
    ReturnedFrom(ListModes) =>
        /\ (Decodable(stdout) /\ \A k \in 1..Len(list) : stdout # Echo(list, k))
               => result = Err("ItemNotFoundError")
        /\ stdout = << >> => result = Err("ItemNotFoundError")

C3_Witness ==
    /\ ReturnedFrom({"execute"})
    /\ \E k \in 1..Len(list) : list[k] = <<97>>
    /\ stdout = <<97>>
    /\ result = Err("ItemNotFoundError")

\* the text with one trailing newline stripped, if it ends in one
StripOneNewline(s) ==
    IF s # << >> /\ s[Len(s)] = 10 THEN SubSeq(s, 1, Len(s) - 1) ELSE s

\* C4: free-text stripping.  For every decodable stdout execute_as_input
\* returns Ok with the text less exactly one trailing newline; a text that
\* does not end in a newline is returned unchanged.
C4_StripOneNewline ==
    (ReturnedFrom({"execute_as_input"}) /\ Decodable(stdout)) =>
        result = Ok_text(StripOneNewline(TextOf(stdout)))

\* C5: error precedence: launch, then decode, then lookup.  A launch failure
\* is returned as such; undecodable stdout yields the decode error whatever
\* the list; ItemNotFoundError comes only after a launch and a decode that
\* succeeded, and never from execute_as_input.
C5_ErrorPrecedence ==
    /\ pc # "returned" => result = NoResult
    /\ pc = "returned" =>
        /\ child = "none" => result = Err("io::Error")
        /\ (child = "exited" /\ ~Decodable(stdout)) => result = Err("FromUtf8Error")
        /\ result = Err("ItemNotFoundError") =>
               child = "exited" /\ Decodable(stdout) /\ mode \in ListModes
        /\ result = Err("io::Error") => child = "none"
        /\ result = Err("FromUtf8Error") => child = "exited" /\ ~Decodable(stdout)

C5_Witness ==
    /\ ReturnedFrom({"execute"})
    /\ stdout = <<97, 195>>
    /\ \E k \in 1..Len(list) : list[k] = <<97>>
    /\ result = Err("FromUtf8Error")

\* C9: empty list.  With an empty item list every decodable stdout, empty
\* stdout included, ends in ItemNotFoundError.
C9_EmptyList ==
    (ReturnedFrom(ListModes) /\ list = << >> /\ Decodable(stdout)) =>
        result = Err("ItemNotFoundError")

C9_Witness ==
    /\ ReturnedFrom({"execute"})
    /\ list = << >>
    /\ stdout = << >>
    /\ result = Err("ItemNotFoundError")

\* C10: one blocking spawn per call.  At most one child is spawned over the
\* call; while the child runs the call has not returned; a result other
\* than the launch failure is returned only after the child has exited.
C10_OneBlockingSpawn ==
    /\ spawns <= 1
    /\ child # "none" => spawns = 1
    /\ child = "running" => pc = "wait" /\ result = NoResult
    /\ (pc = "returned" /\ result # Err("io::Error")) => child = "exited"

C10_Witness ==
    /\ pc = "returned"
    /\ child = "exited"
    /\ spawns = 1
    /\ result.kind = "Ok"
    /\ stdout # << >>

----------------------------------------------------------------------------
(* Properties of the builder and the renderer, checked under SpecBuilder *)

ColorFields ==
    { "normal_background_color", "normal_foreground_color",
      "selected_background_color", "selected_foreground_color" }

\* every field outside F keeps its value over the step
Frame(F) == \A f \in (DOMAIN cfg) \ F : cfg'[f] = cfg[f]

\* C6: setter frame.  Each setter changes at most its own field, with_colors
\* at most the four color fields; every other field keeps its value.
C6_SetterFrame ==
    [][ /\ Set_display_bottom => Frame({"on_top"})
        /\ Set_case_insensitive => Frame({"case_insensitive"})
        /\ Set_vertical_with_lines => Frame({"vertical_lines"})
        /\ Set_display_on_monitor => Frame({"monitor"})
        /\ Set_with_prompt => Frame({"prompt"})
        /\ Set_with_font => Frame({"font"})
        /\ Set_with_colors => Frame(ColorFields) ]_vars

C6_Witness ==
    /\ pc = "build"
    /\ cfg = [Default EXCEPT !.prompt = Some("Select:"),
                             !.font = Some("X"),
                             !.selected_background_color = Some(Color("#ff0000"))]

\* the pieces that carry the flag of a color slot
ColorPieces(flag) == { " -" \o flag \o " '" \o x \o "'" : x \in ColorNames }
HasColorFlag(self, flag) ==
    \E i \in 1..Len(pushes(self)) : pushes(self)[i] \in ColorPieces(flag)

\* C7: with_colors overwrites all four color slots with its arguments: a
\* slot passed as None is absent afterwards whatever it held before, and
\* the rendered command then carries no flag for it.
C7_ColorsOverwrite ==
    pc = "build" =>
        \A nb \in NbArgs, nf \in NfArgs, sb \in SbArgs, sf \in SfArgs :
            LET after == with_colors(cfg, nb, nf, sb, sf) IN
            /\ after.normal_background_color = nb
            /\ after.normal_foreground_color = nf
            /\ after.selected_background_color = sb
            /\ after.selected_foreground_color = sf
            /\ nb = None => ~HasColorFlag(after, "nb")
            /\ nf = None => ~HasColorFlag(after, "nf")
            /\ sb = None => ~HasColorFlag(after, "sb")
            /\ sf = None => ~HasColorFlag(after, "sf")
            /\ nb # None => HasColorFlag(after, "nb")

\* a configuration whose colors can only come from with_colors, with slots
\* that are set and slots that are absent, rendered
C7_Witness ==
    /\ pc = "rendered"
    /\ cfg.normal_background_color = None
    /\ cfg.normal_foreground_color = Some(Color("#000000"))
    /\ cfg.selected_background_color = None
    /\ cfg.selected_foreground_color = Some(Color("#0000ff"))
    /\ cfg.font = Some("X")
    /\ command = "dmenu -fn 'X' -nf '#000000' -sf '#0000ff'"

\* the flag each field contributes ("" for a field at its default), in the
\* order -b, -i, -l, -m, -p, -fn, -nb, -nf, -sb, -sf
FlagsInOrder(self) ==
    << IF self.on_top = Default.on_top THEN "" ELSE " -b",
       IF self.case_insensitive = Default.case_insensitive THEN "" ELSE " -i",
       IF self.vertical_lines = None THEN ""
           ELSE " -l " \o ToString(self.vertical_lines[1]),
       IF self.monitor = None THEN "" ELSE " -m " \o ToString(self.monitor[1]),
       IF self.prompt = None THEN "" ELSE " -p '" \o self.prompt[1] \o "'",
       IF self.font = None THEN "" ELSE " -fn '" \o self.font[1] \o "'",
       IF self.normal_background_color = None THEN ""
           ELSE " -nb '" \o self.normal_background_color[1].c0 \o "'",
       IF self.normal_foreground_color = None THEN ""
           ELSE " -nf '" \o self.normal_foreground_color[1].c0 \o "'",
       IF self.selected_background_color = None THEN ""
           ELSE " -sb '" \o self.selected_background_color[1].c0 \o "'",
       IF self.selected_foreground_color = None THEN ""
           ELSE " -sf '" \o self.selected_foreground_color[1].c0 \o "'" >>

IsFlag(piece) == piece # ""

\* the setter calls, and the fields each writes
SetterCalls ==
    { <<"display_bottom">>, <<"case_insensitive">> }
    \cup { <<"vertical_with_lines", n>> : n \in Amounts }
    \cup { <<"display_on_monitor", n>> : n \in Monitors }
    \cup { <<"with_prompt", x>> : x \in Prompts }
    \cup { <<"with_font", x>> : x \in Fonts }
    \cup { <<"with_colors", nb, nf, sb, sf>> :
               nb \in NbArgs, nf \in NfArgs, sb \in SbArgs, sf \in SfArgs }

Apply(self, call) ==
    CASE call[1] = "display_bottom" -> display_bottom(self)
      [] call[1] = "case_insensitive" -> case_insensitive(self)
      [] call[1] = "vertical_with_lines" -> vertical_with_lines(self, call[2])
      [] call[1] = "display_on_monitor" -> display_on_monitor(self, call[2])
      [] call[1] = "with_prompt" -> with_prompt(self, call[2])
      [] call[1] = "with_font" -> with_font(self, call[2])
      [] call[1] = "with_colors" -> with_colors(self, call[2], call[3], call[4], call[5])

====
